---- MODULE Spec2Model ----
(***************************************************************************)
(* Model of aiogram-metrics/main.py: the Metrics aggregator over a Redis   *)
(* store (note_message, prune_events, snapshot) and the chat handlers that *)
(* send and edit the displayed report, and the scrape handler.             *)
(*                                                                         *)
(* Redis values are strings.  Strings are modelled as sequences of         *)
(* one-character strings, so that str(), int() and the set/zset member     *)
(* identity are computed, not assumed.                                     *)
(***************************************************************************)
EXTENDS Integers, Sequences, FiniteSets, TLC

VARIABLES store, hist, nrec, rec, snp, tally, msg, cbs, web

vars == <<store, hist, nrec, rec, snp, tally, msg, cbs, web>>

(***************************************************************************)
(* Bounds of the model.                                                    *)
(***************************************************************************)
\* reference second; every timestamp of the model is relative to it
T0 == 1000
\* record calls per behaviour of the sequential specification
MaxRecords == 4
\* store commands that answer with an error, per behaviour
MaxErrors == 1

\* chat ids (a private chat is positive, a group chat is negative)
ChatIds == {7, -7}
\* timestamps handed to note_message
RecordTimes == {T0 - 700, T0 - 400, T0 - 100, T0 - 30}
\* timestamps handed to snapshot: T0-100 puts T0-700 on the prune horizon and
\* T0-400 on the edge of the activity window, T0-99 puts them one second
\* beyond; T0-40 and T0-39 put T0-100 on and beyond the edge of the rate window
SnapshotTimes == {T0, T0 - 100, T0 - 99, T0 - 40, T0 - 39}

(***************************************************************************)
(* str() and int() of Python, on decimal integers.                         *)
(***************************************************************************)
DigitChars == <<"0", "1", "2", "3", "4", "5", "6", "7", "8", "9">>

RECURSIVE StrNat(_)
StrNat(n) ==
    IF n < 10 THEN <<DigitChars[n + 1]>>
    ELSE StrNat(n \div 10) \o <<DigitChars[(n % 10) + 1]>>

str(n) == IF n < 0 THEN <<"-">> \o StrNat(0 - n) ELSE StrNat(n)

IsDigit(c) == \E d \in 1..10 : DigitChars[d] = c

DigitVal(c) == (CHOOSE d \in 1..10 : DigitChars[d] = c) - 1

RECURSIVE IntNat(_)
IntNat(s) ==
    IF Len(s) = 0 THEN 0
    ELSE IntNat(SubSeq(s, 1, Len(s) - 1)) * 10 + DigitVal(s[Len(s)])

IsNumeric(s) ==
    LET body == IF Len(s) > 0 /\ s[1] = "-" THEN Tail(s) ELSE s
    IN  Len(body) > 0 /\ \A i \in 1..Len(body) : IsDigit(body[i])

int(s) == IF s[1] = "-" THEN 0 - IntNat(Tail(s)) ELSE IntNat(s)

(***************************************************************************)
(* The store: the five keys of Metrics.__init__.  An absent string key is  *)
(* the empty string; an absent set, hash or sorted set is empty.           *)
(***************************************************************************)
Absent == <<>>

EmptyMap == [m \in {} |-> 0]

EmptyStore ==
    [k_users  |-> {},
     k_last   |-> EmptyMap,
     k_msgs   |-> Absent,
     k_cmds   |-> Absent,
     k_events |-> EmptyMap]

\* SET in the place of SADD: the key holds the last member only
sadd_overwrite(set, member) == {str(member)}

\* SADD key member
sadd(set, member) == set \cup {str(member)}

\* HSET key field value
hset(hash, field, value) ==
    [f \in DOMAIN hash \cup {str(field)} |->
        IF f = str(field) THEN str(value) ELSE hash[f]]

\* DECR key in the place of INCR
incr_down(val) == str((IF val = Absent THEN 0 ELSE int(val)) - 1)

\* INCR key: an absent key counts as 0
incr(val) == str((IF val = Absent THEN 0 ELSE int(val)) + 1)

\* ZADD key score member: one entry per member, the score is overwritten
zadd(zset, member, score) ==
    [m \in DOMAIN zset \cup {member} |->
        IF m = member THEN score ELSE zset[m]]

\* ZREMRANGEBYRANK key 0 0 in the place of ZREMRANGEBYSCORE: the entry of the
\* lowest score goes, whatever its score
zremrangebyscore_rank(zset, max) ==
    [m \in {x \in DOMAIN zset : \E y \in DOMAIN zset : zset[y] < zset[x]}
        |-> zset[m]]

\* ZREMRANGEBYSCORE key -inf max: both ends of the range are inclusive
zremrangebyscore(zset, max) ==
    [m \in {x \in DOMAIN zset : ~(zset[x] <= max)} |-> zset[m]]

\* ZCOUNT key (min max: the lower end of the range left out
zcount_open_min(zset, min, max) ==
    Cardinality({m \in DOMAIN zset : zset[m] > min /\ zset[m] <= max})

\* ZCOUNT key min max: both ends of the range are inclusive
zcount(zset, min, max) ==
    Cardinality({m \in DOMAIN zset : zset[m] >= min /\ zset[m] <= max})

\* SCARD key
scard(set) == Cardinality(set)

\* int(await GET key or 0)
get_int(val) == IF val = Absent THEN 0 ELSE int(val)

(***************************************************************************)
(* Metrics.note_message: the commands buffered on the pipeline, in order.  *)
(***************************************************************************)
\* the pipeline without the test of is_command
note_message_always_cmd(chat_id, is_command, now) ==
    <<[op |-> "sadd", chat |-> chat_id, now |-> now],
      [op |-> "hset", chat |-> chat_id, now |-> now],
      [op |-> "incr_msgs", chat |-> chat_id, now |-> now],
      [op |-> "zadd", chat |-> chat_id, now |-> now],
      [op |-> "incr_cmds", chat |-> chat_id, now |-> now]>>

note_message(chat_id, is_command, now) ==
    <<[op |-> "sadd", chat |-> chat_id, now |-> now],
      [op |-> "hset", chat |-> chat_id, now |-> now],
      [op |-> "incr_msgs", chat |-> chat_id, now |-> now],
      [op |-> "zadd", chat |-> chat_id, now |-> now]>>
    \o (IF is_command
        THEN <<[op |-> "incr_cmds", chat |-> chat_id, now |-> now]>>
        ELSE <<>>)

\* the store after one buffered command
Apply(s, c) ==
    CASE c.op = "sadd"      -> [s EXCEPT !.k_users = sadd(@, c.chat)]
      [] c.op = "hset"      -> [s EXCEPT !.k_last = hset(@, c.chat, c.now)]
      [] c.op = "incr_msgs" -> [s EXCEPT !.k_msgs = incr(@)]
      [] c.op = "zadd"      -> [s EXCEPT !.k_events = zadd(@, str(c.now), c.now)]
      [] c.op = "incr_cmds" -> [s EXCEPT !.k_cmds = incr(@)]

\* p.execute() with every command answered: the commands run in buffer order
RECURSIVE execute(_, _)
execute(s, buf) ==
    IF buf = <<>> THEN s ELSE execute(Apply(s, Head(buf)), Tail(buf))

(***************************************************************************)
(* Metrics.prune_events and the reads of Metrics.snapshot.                 *)
(***************************************************************************)
\* the prune of the index that also drops the last-seen entries as old
prune_events_last_seen(s, before_ts) ==
    [s EXCEPT !.k_events = zremrangebyscore(@, before_ts),
              !.k_last = [f \in {x \in DOMAIN @ : int(@[x]) > before_ts}
                             |-> @[f]]]

prune_events(s, before_ts) ==
    [s EXCEPT !.k_events = zremrangebyscore(@, before_ts)]

\* the scan with the edge of the window left out
active_users_5m_strict(hash, now) ==
    Cardinality({f \in DOMAIN hash :
        IsNumeric(hash[f]) /\ now - int(hash[f]) < 300})

\* the scan over hgetall(k_last).values(); a value that does not parse is skipped
active_users_5m(hash, now) ==
    Cardinality({f \in DOMAIN hash :
        IsNumeric(hash[f]) /\ now - int(hash[f]) <= 300})

\* the dictionary snapshot returns when all its reads see the store s
snapshot_reads(s, now) ==
    [total_users     |-> scard(s.k_users),
     msgs_total      |-> get_int(s.k_msgs),
     cmds_total      |-> get_int(s.k_cmds),
     rpm_1m          |-> zcount(s.k_events, now - 60, now),
     active_users_5m |-> active_users_5m(s.k_last, now)]

NoSnap ==
    [total_users |-> 0, msgs_total |-> 0, cmds_total |-> 0,
     rpm_1m |-> 0, active_users_5m |-> 0]

(***************************************************************************)
(* History variables.  tally counts the record calls: times[t] is the      *)
(* number of calls with timestamp t, per[c] the calls and the command      *)
(* calls of chat id c, latest[c] the timestamp of the call whose last-seen *)
(* write was applied last.  hist describes the call that ended last.       *)
(***************************************************************************)
NoTally ==
    [times  |-> [t \in RecordTimes |-> 0],
     per    |-> [c \in ChatIds |-> [n |-> 0, ncmd |-> 0]],
     latest |-> EmptyMap]

Logged(t, chat_id, is_command, now) ==
    [times  |-> [t.times EXCEPT ![now] = @ + 1],
     per    |-> [t.per EXCEPT ![chat_id] =
                    [n |-> @.n + 1,
                     ncmd |-> @.ncmd + (IF is_command THEN 1 ELSE 0)]],
     latest |-> [c \in DOMAIN t.latest \cup {chat_id} |->
                    IF c = chat_id THEN now ELSE t.latest[c]]]

NoHist ==
    [op |-> "none", now |-> 0, pre_events |-> EmptyMap, res |-> NoSnap,
     again |-> FALSE, prev_res |-> NoSnap]

(***************************************************************************)
(* Callers.  A recorder is one handler run awaiting note_message, a reader  *)
(* a handler awaiting snapshot, time after time.                           *)
(***************************************************************************)
Recorders == {"r1", "r2"}
Readers == {"s1"}
\* timestamps the interleaved callers read from the clock
LiveRecordTimes == {T0 - 30}
LiveSnapshotTimes == {T0}

IdleRecorder ==
    [pc |-> "idle", chat |-> 0, cmd |-> FALSE, now |-> 0,
     buf |-> <<>>, i |-> 1, err |-> FALSE, applied |-> {}]

\* the totals of a snapshot
Totals == {"total_users", "msgs_total", "cmds_total"}

\* low holds the totals that snapshots had returned when this one was called
IdleReader ==
    [pc |-> "idle", now |-> 0, res |-> NoSnap, low |-> [f \in Totals |-> 0],
     obs |-> [k \in {"sadd", "hset", "incr_msgs", "zadd"} |->
                [p \in Recorders |-> FALSE]]]

IdleRec == [p \in Recorders |-> IdleRecorder]
IdleSnp == [q \in Readers |-> IdleReader]
NoMsg == [text |-> <<>>, markup |-> FALSE]

\* handlers of the callback queries of one report message, and the handler of
\* the /stats command that sends it
Pressers == {"c1", "c2"}
Commanders == {"m1"}
SnapFields ==
    {"total_users", "msgs_total", "cmds_total", "rpm_1m", "active_users_5m"}
\* kind is the handler that runs, text is cb.message.text, res and got are the
\* values and the fields snapshot has read, ans is the last answer awaited
IdleCallback ==
    [pc |-> "idle", kind |-> "none", text |-> <<>>, res |-> NoSnap,
     got |-> {}, ans |-> "none"]
IdleCbs == [h \in Pressers \cup Commanders |-> IdleCallback]

\* the process-wide gauges, by the field of the snapshot each is set to
Gauges ==
    [G_MSGS |-> "msgs_total", G_CMDS |-> "cmds_total",
     G_USERS |-> "total_users", G_ACTIVE5 |-> "active_users_5m",
     G_RPM1 |-> "rpm_1m"]

\* runs of metrics_handler; a response body is a sequence of samples
Scrapers == {"w1", "w2"}
NoBody == <<>>
\* calls counts the calls of snapshot of the request
IdleScraper ==
    [pc |-> "idle", res |-> NoSnap, got |-> {}, calls |-> 0, body |-> NoBody]
\* a new gauge holds 0
NoWeb ==
    [gauges |-> [g \in DOMAIN Gauges |-> 0],
     req |-> [w \in Scrapers |-> IdleScraper]]

(***************************************************************************)
(* Sequential specification: every call runs alone, from its first store   *)
(* command to its return.                                                  *)
(***************************************************************************)
InitSeq ==
    /\ store = EmptyStore
    /\ hist = NoHist
    /\ nrec = 0
    /\ tally = NoTally
    /\ rec = IdleRec
    /\ snp = IdleSnp
    /\ msg = NoMsg
    /\ cbs = IdleCbs
    /\ web = NoWeb

\* await metrics.note_message(chat_id, is_command, now), every command answered
RecordSeq(chat_id, is_command, now) ==
    /\ nrec < MaxRecords
    /\ nrec' = nrec + 1
    /\ store' = execute(store, note_message(chat_id, is_command, now))
    /\ tally' = Logged(tally, chat_id, is_command, now)
    /\ hist' = [NoHist EXCEPT !.op = "record"]
    /\ UNCHANGED <<rec, snp, msg, cbs, web>>

\* await metrics.snapshot(now), with no other call between its commands
SnapshotSeq(now) ==
    LET pruned == prune_events(store, now - 600)
    IN  /\ store' = pruned
        /\ hist' = [op         |-> "snapshot",
                    now        |-> now,
                    pre_events |-> store.k_events,
                    res        |-> snapshot_reads(pruned, now),
                    again      |-> hist.op = "snapshot" /\ hist.now = now,
                    prev_res   |-> IF hist.op = "snapshot" /\ hist.now = now
                                   THEN hist.res ELSE NoSnap]
        /\ UNCHANGED <<nrec, tally, rec, snp, msg, cbs, web>>

NextSeq ==
    \/ \E c \in ChatIds, k \in BOOLEAN, t \in RecordTimes : RecordSeq(c, k, t)
    \/ \E t \in SnapshotTimes : SnapshotSeq(t)

SpecSeq == InitSeq /\ [][NextSeq]_vars

(***************************************************************************)
(* Properties of the sequential specification.                             *)
(***************************************************************************)
RECURSIVE RecordedIn(_, _, _)
\* number of record calls with a timestamp of the set S inside [lo, hi]
RecordedIn(S, lo, hi) ==
    IF S = {} THEN 0
    ELSE LET t == CHOOSE x \in S : TRUE
         IN  (IF lo <= t /\ t <= hi THEN tally.times[t] ELSE 0)
             + RecordedIn(S \ {t}, lo, hi)

Snapshotted == hist.op = "snapshot"

\* every timestamp of RecordTimes recorded by exactly one call
EachTimeOnce == nrec = 4 /\ \A t \in RecordTimes : tally.times[t] = 1

\* three calls of chat 7, two of them commands, and one plain call of chat -7,
\* all at the second T0 - 100
EndToEndCalls ==
    /\ nrec = 4
    /\ tally.times[T0 - 100] = 4
    /\ tally.per[7] = [n |-> 3, ncmd |-> 2]
    /\ tally.per[-7] = [n |-> 1, ncmd |-> 0]

\* C3: after the end-to-end calls, all at second t, snapshot(t) returns
\* total_users = 2, msgs_total = 4, cmds_total = 2, rpm_1m = 4 and
\* active_users_5m = 2; and every snapshot counts every record call whose
\* timestamp lies in [now-60, now], calls of the same second included.
C3_EndToEndRate ==
    Snapshotted =>
        /\ hist.res.rpm_1m = RecordedIn(RecordTimes, hist.now - 60, hist.now)
        /\ (EndToEndCalls /\ hist.now = T0 - 100) =>
              hist.res = [total_users |-> 2, msgs_total |-> 4, cmds_total |-> 2,
                          rpm_1m |-> 4, active_users_5m |-> 2]

\* C4: the prune step of snapshot(now) removes exactly the entries with a
\* timestamp strictly less than now-600: an entry at now-600 or later stays.
C4_PruneStrictlyOlder ==
    Snapshotted =>
        store.k_events =
            [m \in {x \in DOMAIN hist.pre_events :
                        hist.pre_events[x] >= hist.now - 600}
                |-> hist.pre_events[m]]

\* C5: rpm_1m of snapshot(now) is the number of index entries with a timestamp
\* in [now-60, now], both ends counted; with one call at each of t-700, t-400,
\* t-100 and t-30, snapshot(t) returns rpm_1m = 1 and leaves no entry t-700.
C5_RateWindow ==
    Snapshotted =>
        /\ hist.res.rpm_1m =
              Cardinality({m \in DOMAIN hist.pre_events :
                  /\ hist.now - 60 <= hist.pre_events[m]
                  /\ hist.pre_events[m] <= hist.now})
        /\ (EachTimeOnce /\ hist.now = T0) =>
              /\ hist.res.rpm_1m = 1
              /\ str(T0 - 700) \notin DOMAIN store.k_events

\* the window scenario, the entry t-700 removed by this very snapshot
C5_Witness ==
    /\ Snapshotted /\ hist.now = T0 /\ EachTimeOnce
    /\ str(T0 - 700) \in DOMAIN hist.pre_events
    /\ hist.res.rpm_1m = 1

\* C6: active_users_5m of snapshot(now) is the number of chat ids whose latest
\* applied record call carries a timestamp v with now - v <= 300; a chat id
\* counts once however many calls it made.
C6_ActiveUsers ==
    Snapshotted =>
        hist.res.active_users_5m =
            Cardinality({c \in DOMAIN tally.latest :
                hist.now - tally.latest[c] <= 300})

\* chat 7 recorded twice and last seen exactly 300 seconds ago is counted once,
\* chat -7 last seen 600 seconds ago is not
C6_Witness ==
    /\ Snapshotted /\ hist.now = T0 - 100
    /\ DOMAIN tally.latest = ChatIds
    /\ tally.latest[7] = T0 - 400 /\ tally.per[7].n = 2
    /\ tally.latest[-7] = T0 - 700
    /\ hist.res.active_users_5m = 1

\* C9: a snapshot that follows a snapshot with the same now, with no record
\* call between them, returns the same five values and prunes nothing.
C9_SnapshotTwice ==
    (Snapshotted /\ hist.again) =>
        /\ hist.res = hist.prev_res
        /\ store.k_events = hist.pre_events

\* the second snapshot(T0) of the window scenario: the first one pruned t-700
C9_Witness ==
    /\ Snapshotted /\ hist.again /\ hist.now = T0 /\ EachTimeOnce
    /\ Cardinality(DOMAIN store.k_events) = 3
    /\ hist.res.rpm_1m = 1 /\ hist.res.msgs_total = 4

\* the entries of the map a are entries of the map b
SubMap(a, b) == \A x \in DOMAIN a : x \in DOMAIN b /\ b[x] = a[x]

\* C15: a snapshot leaves the user set, the last-seen map and the two
\* counters as they are and only takes entries out of the index; a record
\* takes no member, no key and no entry out of the store.
C15_Frame ==
    [][/\ hist'.op = "snapshot" =>
            /\ store'.k_users = store.k_users
            /\ store'.k_last = store.k_last
            /\ store'.k_msgs = store.k_msgs
            /\ store'.k_cmds = store.k_cmds
            /\ SubMap(store'.k_events, store.k_events)
       /\ hist'.op = "record" =>
            /\ store.k_users \subseteq store'.k_users
            /\ DOMAIN store.k_last \subseteq DOMAIN store'.k_last
            /\ DOMAIN store.k_events \subseteq DOMAIN store'.k_events
            /\ store.k_msgs # Absent => store'.k_msgs # Absent
            /\ store.k_cmds # Absent => store'.k_cmds # Absent]_vars

\* a snapshot has pruned the index of a store that holds users, last-seen
\* entries older than the horizon and counters
C15_Witness ==
    /\ Snapshotted /\ store.k_events # hist.pre_events
    /\ Cardinality(store.k_users) = 2
    /\ \E f \in DOMAIN store.k_last : int(store.k_last[f]) < hist.now - 600
    /\ hist.res.cmds_total >= 1

\* C17: the prune of snapshot(n1) removes no entry that a window [n2-60, n2]
\* with n2 >= n1-540 counts.
C17_PruneKeepsWindows ==
    [][hist'.op = "snapshot" =>
          \A x \in DOMAIN store.k_events :
              \A n2 \in store.k_events[x]..(store.k_events[x] + 60) :
                  n2 >= hist'.now - 540 => x \in DOMAIN store'.k_events]_vars

(***************************************************************************)
(* Interleaved specification: every store command is one step, and the     *)
(* commands of different callers interleave.  note_message buffers its     *)
(* commands on pipeline(transaction=False): the server runs them in buffer *)
(* order, not as one unit, answers each on its own, and execute() raises   *)
(* after the last answer when one of them was an error.                    *)
(***************************************************************************)
\* nerr counts the errors of the store, added is the set of chat ids whose
\* SADD was run, floor holds, for every total, the greatest value a snapshot
\* has returned so far
NoLive == [nerr |-> 0, added |-> {}, floor |-> [f \in Totals |-> 0]]

Init ==
    /\ store = EmptyStore
    /\ hist = NoLive
    /\ nrec = 0
    /\ tally = NoTally
    /\ rec = IdleRec
    /\ snp = IdleSnp
    /\ msg = NoMsg
    /\ cbs = IdleCbs
    /\ web = NoWeb

\* a handler calls note_message: the pipeline is filled and sent
NoteMessage(p, chat_id, is_command, now) ==
    /\ rec[p].pc = "idle"
    /\ rec' = [rec EXCEPT ![p] =
                  [IdleRecorder EXCEPT
                      !.pc = "exec",
                      !.chat = chat_id, !.cmd = is_command, !.now = now,
                      !.buf = note_message(chat_id, is_command, now)]]
    /\ UNCHANGED <<store, hist, nrec, tally, snp, msg, cbs, web>>

\* the recorder after the answer to its command number i; after the last
\* answer await p.execute() resumes, and note_message returns or raises
Answered(r, ok) ==
    [r EXCEPT !.i = @ + 1,
              !.err = @ \/ ~ok,
              !.applied = IF ok THEN @ \cup {r.buf[r.i].op} ELSE @,
              !.pc = IF r.i < Len(r.buf) THEN "exec"
                     ELSE IF r.err \/ ~ok THEN "raised" ELSE "returned"]

\* the server runs the next buffered command of p
ExecCommand(p) ==
    LET c == rec[p].buf[rec[p].i]
    IN  /\ rec[p].pc = "exec"
        /\ store' = Apply(store, c)
        /\ rec' = [rec EXCEPT ![p] = Answered(@, TRUE)]
        /\ hist' = [hist EXCEPT !.added =
                       IF c.op = "sadd" THEN @ \cup {c.chat} ELSE @]
        /\ UNCHANGED <<nrec, tally, snp, msg, cbs, web>>

\* the server answers the next buffered command of p with an error
FailCommand(p) ==
    /\ rec[p].pc = "exec"
    /\ hist.nerr < MaxErrors
    /\ rec' = [rec EXCEPT ![p] = Answered(@, FALSE)]
    /\ hist' = [hist EXCEPT !.nerr = @ + 1]
    /\ UNCHANGED <<store, nrec, tally, snp, msg, cbs, web>>

\* the server has gone past the command op of the call of recorder p
Passed(p, op) == \E j \in 1..(rec[p].i - 1) : rec[p].buf[j].op = op

Seen(op) == [p \in Recorders |-> Passed(p, op)]

\* a handler calls snapshot(now)
Snapshot(q, now) ==
    /\ snp[q].pc = "idle"
    /\ snp' = [snp EXCEPT ![q] = [IdleReader EXCEPT !.pc = "prune", !.now = now,
                                                    !.low = hist.floor]]
    /\ UNCHANGED <<store, hist, nrec, tally, rec, msg, cbs, web>>

\* await self.prune_events(now - 600)
SnapPrune(q) ==
    /\ snp[q].pc = "prune"
    /\ store' = prune_events(store, snp[q].now - 600)
    /\ snp' = [snp EXCEPT ![q].pc = "scard"]
    /\ UNCHANGED <<hist, nrec, tally, rec, msg, cbs, web>>

\* total_users = await self.r.scard(self.k_users)
SnapScard(q) ==
    /\ snp[q].pc = "scard"
    /\ snp' = [snp EXCEPT ![q].pc = "get_msgs",
                          ![q].res.total_users = scard(store.k_users),
                          ![q].obs["sadd"] = Seen("sadd")]
    /\ UNCHANGED <<store, hist, nrec, tally, rec, msg, cbs, web>>

\* msgs_total = int(await self.r.get(self.k_msgs) or 0)
SnapGetMsgs(q) ==
    /\ snp[q].pc = "get_msgs"
    /\ snp' = [snp EXCEPT ![q].pc = "get_cmds",
                          ![q].res.msgs_total = get_int(store.k_msgs),
                          ![q].obs["incr_msgs"] = Seen("incr_msgs")]
    /\ UNCHANGED <<store, hist, nrec, tally, rec, msg, cbs, web>>

\* cmds_total = int(await self.r.get(self.k_cmds) or 0)
SnapGetCmds(q) ==
    /\ snp[q].pc = "get_cmds"
    /\ snp' = [snp EXCEPT ![q].pc = "zcount",
                          ![q].res.cmds_total = get_int(store.k_cmds)]
    /\ UNCHANGED <<store, hist, nrec, tally, rec, msg, cbs, web>>

\* rpm_1m = await self.r.zcount(self.k_events, now - 60, now)
SnapZcount(q) ==
    /\ snp[q].pc = "zcount"
    /\ snp' = [snp EXCEPT
           ![q].pc = "hgetall",
           ![q].res.rpm_1m = zcount(store.k_events, snp[q].now - 60, snp[q].now),
           ![q].obs["zadd"] = Seen("zadd")]
    /\ UNCHANGED <<store, hist, nrec, tally, rec, msg, cbs, web>>

\* last_seen = await self.r.hgetall(self.k_last), and the scan over it
SnapHgetall(q) ==
    /\ snp[q].pc = "hgetall"
    /\ snp' = [snp EXCEPT
           ![q].pc = "done",
           ![q].res.active_users_5m = active_users_5m(store.k_last, snp[q].now),
           ![q].obs["hset"] = Seen("hset")]
    /\ UNCHANGED <<store, hist, nrec, tally, rec, msg, cbs, web>>

\* snapshot returns its dictionary
EndSnapshot(q) ==
    /\ snp[q].pc = "done"
    /\ snp' = [snp EXCEPT ![q] = IdleReader]
    /\ hist' = [hist EXCEPT !.floor =
                   [f \in Totals |-> IF snp[q].res[f] > @[f] THEN snp[q].res[f]
                                     ELSE @[f]]]
    /\ UNCHANGED <<store, nrec, tally, rec, msg, cbs, web>>

Next ==
    \/ \E p \in Recorders, c \in ChatIds, k \in BOOLEAN, t \in LiveRecordTimes :
          NoteMessage(p, c, k, t)
    \/ \E p \in Recorders : ExecCommand(p)
    \/ \E p \in Recorders : FailCommand(p)
    \/ \E q \in Readers, t \in LiveSnapshotTimes : Snapshot(q, t)
    \/ \E q \in Readers : SnapPrune(q)
    \/ \E q \in Readers : SnapScard(q)
    \/ \E q \in Readers : SnapGetMsgs(q)
    \/ \E q \in Readers : SnapGetCmds(q)
    \/ \E q \in Readers : SnapZcount(q)
    \/ \E q \in Readers : SnapHgetall(q)
    \/ \E q \in Readers : EndSnapshot(q)

Spec == Init /\ [][Next]_vars

(***************************************************************************)
(* Properties of the interleaved specification.                            *)
(***************************************************************************)
Returned == {p \in Recorders : rec[p].pc = "returned"}

\* no record call is between its first command and its return, none raised
Quiet == \A p \in Recorders : rec[p].pc \in {"idle", "returned"}

\* C1: a snapshot never reflects the message-counter increment of a record
\* call without its known-subjects add, its last-seen write and its index
\* insert, nor any of these without the increment.
C1_AllOrNone ==
    \A q \in Readers :
        (snp[q].pc = "done" /\ hist.nerr = 0) =>
            \A p \in Recorders :
                /\ snp[q].obs["incr_msgs"][p] = snp[q].obs["sadd"][p]
                /\ snp[q].obs["incr_msgs"][p] = snp[q].obs["hset"][p]
                /\ snp[q].obs["incr_msgs"][p] = snp[q].obs["zadd"][p]

\* C2: once the record calls have returned, the message counter is the number
\* of calls and the command counter the number of command calls, whatever the
\* interleaving; no step of a snapshot changes either counter.
C2_Counters ==
    /\ [](Quiet =>
            /\ get_int(store.k_msgs) = Cardinality(Returned)
            /\ get_int(store.k_cmds) =
                  Cardinality({p \in Returned : rec[p].cmd}))
    /\ [][snp' # snp =>
            /\ store'.k_msgs = store.k_msgs
            /\ store'.k_cmds = store.k_cmds]_vars

\* a command call and a plain call have returned while a snapshot is running
C2_Witness ==
    /\ Returned = Recorders
    /\ rec["r1"].cmd /\ ~rec["r2"].cmd
    /\ snp["s1"].pc = "zcount" /\ snp["s1"].res.msgs_total = 1
    /\ get_int(store.k_msgs) = 2 /\ get_int(store.k_cmds) = 1

\* C7: the known-subjects set has one member per chat id whose add was
\* applied: adding a known chat id leaves its cardinality unchanged, adding a
\* new one raises it by exactly 1, and no step removes a member.
C7_KnownSubjects ==
    /\ [](scard(store.k_users) = Cardinality(hist.added))
    /\ [][/\ store.k_users \subseteq store'.k_users
          /\ hist.added' = hist.added =>
                scard(store'.k_users) = scard(store.k_users)
          /\ hist.added' # hist.added =>
                scard(store'.k_users) = scard(store.k_users) + 1]_vars

\* both recorders have added the same chat id: one known subject
C7_Witness ==
    /\ \A p \in Recorders : "sadd" \in rec[p].applied
    /\ rec["r1"].chat = rec["r2"].chat
    /\ scard(store.k_users) = 1

\* C8: a record call that raises has applied none of its effects.
C8_NoPartialEffects ==
    \A p \in Recorders : rec[p].pc = "raised" => rec[p].applied = {}

(***************************************************************************)
(* The report message and its handlers.  A text is a sequence of tokens:   *)
(* format_stats renders the token "stats" and the five numbers, " " is     *)
(* white space and "(closed)" the marker.  msg is the message as the chat  *)
(* displays it; markup tells whether it carries the keyboard of            *)
(* stats_keyboard.  NoMsg: no report has been sent.                        *)
(***************************************************************************)
\* records of the chat specification, the one of /stats included
MaxMessages == 2

format_stats(s) ==
    <<"stats">> \o str(s.total_users) \o <<",">> \o str(s.active_users_5m)
        \o <<",">> \o str(s.msgs_total) \o <<",">> \o str(s.cmds_total)
        \o <<",">> \o str(s.rpm_1m)

RECURSIVE rstrip(_)
rstrip(t) ==
    IF Len(t) > 0 /\ t[Len(t)] = " " THEN rstrip(SubSeq(t, 1, Len(t) - 1))
    ELSE t

RECURSIVE lstrip(_)
lstrip(t) == IF Len(t) > 0 /\ t[1] = " " THEN lstrip(Tail(t)) ELSE t

strip(t) == lstrip(rstrip(t))

endswith(t, token) == Len(t) > 0 /\ t[Len(t)] = token

\* the text cb_close hands to edit_text, from cb.message.text
closed_text(message_text) ==
    LET text == rstrip(message_text)
    IN  IF ~endswith(text, "(closed)")
        THEN strip(text \o <<" ", "(closed)">>)
        ELSE text

\* the answers of the transport to an edit: done, TelegramBadRequest "message
\* is not modified", another TelegramBadRequest, an error of another class
EditAnswers(same) ==
    (IF same THEN {"not_modified"} ELSE {"ok"}) \cup {"bad_request", "error"}

AllAnswers == {"ok", "not_modified", "bad_request", "error"}

\* where cb_refresh goes on after the answer to its edit_text, with an except
\* clause that lets no TelegramBadRequest out
cb_refresh_except_all(answer) ==
    IF answer \in {"ok", "not_modified", "bad_request"} THEN "answer"
    ELSE "raised"

\* where cb_refresh goes on after the answer to its edit_text: the except
\* clause catches TelegramBadRequest only, and raises it again unless it says
\* "message is not modified"
cb_refresh_except(answer) ==
    IF answer \in {"ok", "not_modified"} THEN "answer" ELSE "raised"

\* where cb_close goes on after the answer to its edit_text: another
\* TelegramBadRequest leads to edit_reply_markup, an error of another class
\* leaves the handler
cb_close_except(answer) ==
    CASE answer \in {"ok", "not_modified"} -> "answer"
      [] answer = "bad_request" -> "fallback"
      [] answer = "error" -> "raised"

\* one store command of snapshot(now), run at pc on the store s by a caller
\* that has read res and the fields got so far
snapshot_step(pc, s, now, res, got) ==
    CASE pc = "prune" ->
            [pc |-> "scard", store |-> prune_events(s, now - 600),
             res |-> res, got |-> got]
      [] pc = "scard" ->
            [pc |-> "get_msgs", store |-> s,
             res |-> [res EXCEPT !.total_users = scard(s.k_users)],
             got |-> got \cup {"total_users"}]
      [] pc = "get_msgs" ->
            [pc |-> "get_cmds", store |-> s,
             res |-> [res EXCEPT !.msgs_total = get_int(s.k_msgs)],
             got |-> got \cup {"msgs_total"}]
      [] pc = "get_cmds" ->
            [pc |-> "zcount", store |-> s,
             res |-> [res EXCEPT !.cmds_total = get_int(s.k_cmds)],
             got |-> got \cup {"cmds_total"}]
      [] pc = "zcount" ->
            [pc |-> "hgetall", store |-> s,
             res |-> [res EXCEPT !.rpm_1m = zcount(s.k_events, now - 60, now)],
             got |-> got \cup {"rpm_1m"}]
      [] pc = "hgetall" ->
            [pc |-> "return", store |-> s,
             res |-> [res EXCEPT !.active_users_5m =
                         active_users_5m(s.k_last, now)],
             got |-> got \cup {"active_users_5m"}]

SnapPcs == {"prune", "scard", "get_msgs", "get_cmds", "zcount", "hgetall"}

\* a store command of snapshot fails and the step is taken as read: the
\* handler goes on with the value it had
snapshot_failed_swallow(r) ==
    [r EXCEPT !.pc = snapshot_step(r.pc, EmptyStore, 0, NoSnap, {}).pc]

\* a store command of snapshot fails: the exception leaves snapshot and the
\* handler, no statement after the await runs
snapshot_failed(r) == [r EXCEPT !.pc = "raised", !.ans = "store"]

\* the buffer without its command number j
RemoveAt(buf, j) == SubSeq(buf, 1, j - 1) \o SubSeq(buf, j + 1, Len(buf))

NoChat == [closes |-> 0]

InitChat ==
    /\ store = EmptyStore
    /\ hist = NoChat
    /\ nrec = 0
    /\ tally = NoTally
    /\ rec = IdleRec
    /\ snp = IdleSnp
    /\ msg = NoMsg
    /\ cbs = IdleCbs
    /\ web = NoWeb

\* any_message in another chat: note_message, every command answered
OtherChats == {-7}

AnyMessage(chat_id, is_command) ==
    /\ nrec < MaxMessages
    /\ nrec' = nrec + 1
    /\ store' = execute(store, note_message(chat_id, is_command, T0 - 30))
    /\ UNCHANGED <<hist, tally, rec, snp, msg, cbs, web>>

\* cmd_stats: await metrics.note_message(chat_id, True, now)
CmdStats(h) ==
    /\ cbs[h].pc = "idle" /\ msg = NoMsg
    /\ nrec < MaxMessages
    /\ nrec' = nrec + 1
    /\ store' = execute(store, note_message(7, TRUE, T0))
    /\ cbs' = [cbs EXCEPT ![h] = [IdleCallback EXCEPT !.pc = "prune",
                                                      !.kind = "stats"]]
    /\ UNCHANGED <<hist, tally, rec, snp, msg, web>>

\* cmd_stats: one command of the pipeline is answered with an error, and
\* note_message raises after the others were run
CmdStatsFails(h) ==
    /\ cbs[h].pc = "idle" /\ msg = NoMsg
    /\ nrec < MaxMessages
    /\ nrec' = nrec + 1
    /\ \E j \in 1..5 :
          store' = execute(store, RemoveAt(note_message(7, TRUE, T0), j))
    /\ cbs' = [cbs EXCEPT ![h] = [IdleCallback EXCEPT !.pc = "raised",
                                                      !.kind = "stats",
                                                      !.ans = "store"]]
    /\ UNCHANGED <<hist, tally, rec, snp, msg, web>>

\* the dispatcher hands a "stats:refresh" callback query to cb_refresh
CbRefresh(h) ==
    /\ cbs[h].pc = "idle" /\ msg # NoMsg
    /\ cbs' = [cbs EXCEPT ![h] = [IdleCallback EXCEPT !.pc = "prune",
                                                      !.kind = "refresh"]]
    /\ UNCHANGED <<store, hist, nrec, tally, rec, snp, msg, web>>

\* the next store command of the snapshot a handler awaits; after the last
\* one snapshot returns and the handler goes on to its reply or its edit
HandlerSnapshot(h) ==
    LET r == cbs[h]
        n == snapshot_step(r.pc, store, T0, r.res, r.got)
    IN  /\ r.pc \in SnapPcs
        /\ store' = n.store
        /\ cbs' = [cbs EXCEPT ![h] =
                      [r EXCEPT !.res = n.res, !.got = n.got,
                                !.pc = IF n.pc # "return" THEN n.pc
                                       ELSE IF r.kind = "stats" THEN "reply"
                                       ELSE "edit"]]
        /\ UNCHANGED <<hist, nrec, tally, rec, snp, msg, web>>

\* the store fails the next command of the snapshot a handler awaits
HandlerSnapshotFails(h) ==
    /\ cbs[h].pc \in SnapPcs
    /\ cbs' = [cbs EXCEPT ![h] = snapshot_failed(@)]
    /\ UNCHANGED <<store, hist, nrec, tally, rec, snp, msg, web>>

\* cmd_stats: await m.answer(format_stats(snap), reply_markup=stats_keyboard())
CmdStatsReply(h) ==
    /\ cbs[h].pc = "reply" /\ cbs[h].kind = "stats"
    /\ msg' = [text |-> format_stats(cbs[h].res), markup |-> TRUE]
    /\ cbs' = [cbs EXCEPT ![h] = IdleCallback]
    /\ UNCHANGED <<store, hist, nrec, tally, rec, snp, web>>

\* cb_refresh: await cb.message.edit_text(format_stats(snap),
\* reply_markup=stats_keyboard()), and the except clause
CbRefreshEdit(h, answer) ==
    LET text == format_stats(cbs[h].res)
    IN  /\ cbs[h].pc = "edit" /\ cbs[h].kind = "refresh"
        /\ answer \in EditAnswers(text = msg.text /\ msg.markup)
        /\ msg' = IF answer = "ok" THEN [text |-> text, markup |-> TRUE]
                  ELSE msg
        /\ cbs' = [cbs EXCEPT ![h].ans = answer,
                              ![h].pc = cb_refresh_except(answer)]
        /\ UNCHANGED <<store, hist, nrec, tally, rec, snp, web>>

\* cb_refresh: await cb.answer("Updated"), and cb_refresh returns
CbRefreshAnswer(h) ==
    /\ cbs[h].pc = "answer" /\ cbs[h].kind = "refresh"
    /\ cbs' = [cbs EXCEPT ![h] = IdleCallback]
    /\ UNCHANGED <<store, hist, nrec, tally, rec, snp, msg, web>>

\* the dispatcher hands a "stats:close" callback query to cb_close; the query
\* carries the message as it was displayed when the button was pressed
CbClose(h) ==
    /\ cbs[h].pc = "idle" /\ msg # NoMsg
    /\ cbs' = [cbs EXCEPT ![h] = [IdleCallback EXCEPT !.pc = "edit",
                                                      !.kind = "close",
                                                      !.text = msg.text]]
    /\ UNCHANGED <<store, hist, nrec, tally, rec, snp, msg, web>>

\* await cb.message.edit_text(text, reply_markup=None), and the except clause
CbCloseEdit(h, answer) ==
    LET text == closed_text(cbs[h].text)
    IN  /\ cbs[h].pc = "edit" /\ cbs[h].kind = "close"
        /\ answer \in EditAnswers(text = msg.text /\ ~msg.markup)
        /\ msg' = IF answer = "ok" THEN [text |-> text, markup |-> FALSE]
                  ELSE msg
        /\ cbs' = [cbs EXCEPT ![h].ans = answer,
                              ![h].pc = cb_close_except(answer)]
        /\ UNCHANGED <<store, hist, nrec, tally, rec, snp, web>>

\* await cb.message.edit_reply_markup(reply_markup=None); except Exception: pass
CbCloseFallback(h, answer) ==
    /\ cbs[h].pc = "fallback"
    /\ answer \in EditAnswers(~msg.markup)
    /\ msg' = IF answer = "ok" THEN [msg EXCEPT !.markup = FALSE] ELSE msg
    /\ cbs' = [cbs EXCEPT ![h].pc = "answer"]
    /\ UNCHANGED <<store, hist, nrec, tally, rec, snp, web>>

\* await cb.answer("Closed"), and cb_close returns
CbCloseAnswer(h) ==
    /\ cbs[h].pc = "answer" /\ cbs[h].kind = "close"
    /\ cbs' = [cbs EXCEPT ![h] = IdleCallback]
    /\ hist' = [hist EXCEPT !.closes = IF @ < 2 THEN @ + 1 ELSE @]
    /\ UNCHANGED <<store, nrec, tally, rec, snp, msg, web>>

\* the dispatcher logs the exception of a handler and goes on
CbDropped(h) ==
    /\ cbs[h].pc = "raised"
    /\ cbs' = [cbs EXCEPT ![h] = IdleCallback]
    /\ UNCHANGED <<store, hist, nrec, tally, rec, snp, msg, web>>

NextChat ==
    \/ \E c \in OtherChats, k \in BOOLEAN : AnyMessage(c, k)
    \/ \E h \in Commanders : CmdStats(h)
    \/ \E h \in Commanders : CmdStatsFails(h)
    \/ \E h \in Commanders : CmdStatsReply(h)
    \/ \E h \in Pressers : CbRefresh(h)
    \/ \E h \in Pressers \cup Commanders : HandlerSnapshot(h)
    \/ \E h \in Pressers \cup Commanders : HandlerSnapshotFails(h)
    \/ \E h \in Pressers, a \in AllAnswers : CbRefreshEdit(h, a)
    \/ \E h \in Pressers : CbRefreshAnswer(h)
    \/ \E h \in Pressers : CbClose(h)
    \/ \E h \in Pressers, a \in AllAnswers : CbCloseEdit(h, a)
    \/ \E h \in Pressers, a \in AllAnswers : CbCloseFallback(h, a)
    \/ \E h \in Pressers : CbCloseAnswer(h)
    \/ \E h \in Pressers \cup Commanders : CbDropped(h)

SpecChat == InitChat /\ [][NextChat]_vars

\* the report is closed: exactly one marker, at the end, and no keyboard
Inert ==
    /\ endswith(msg.text, "(closed)")
    /\ Cardinality({i \in 1..Len(msg.text) : msg.text[i] = "(closed)"}) = 1
    /\ ~msg.markup

\* C10: after one close and after two closes of the same report the report is
\* in the same inert state, and cb_close never raises, whatever the transport
\* answers to its edit.
C10_CloseIdempotent ==
    /\ \A h \in Pressers : cbs[h].kind = "close" => cbs[h].pc # "raised"
    /\ hist.closes >= 1 => Inert

\* the handler h takes the step that awaits its edit
Edits(h) == cbs[h].pc = "edit" /\ cbs'[h].pc # "edit"

\* C11 as stated: in cb_refresh and in cb_close alike, an edit rejected with
\* "message is not modified" leads to the acknowledgement of the callback, and
\* an edit rejected for any other reason makes the handler raise.
C11_OtherRejectionsPropagate ==
    [][\A h \in Pressers :
          Edits(h) =>
              /\ cbs'[h].ans = "not_modified" => cbs'[h].pc = "answer"
              /\ cbs'[h].ans \in {"bad_request", "error"} =>
                     cbs'[h].pc = "raised"]_vars

\* C11 amended: in both handlers "message is not modified" leads to the
\* acknowledgement.  In cb_refresh every other rejection makes the handler
\* raise.  In cb_close a rejection of another class than TelegramBadRequest
\* makes the handler raise, but another TelegramBadRequest does not: cb_close
\* then asks for the removal of the keyboard and, whatever the answer to that
\* second edit, acknowledges the callback.
C11_Rejections ==
    [][\A h \in Pressers :
          /\ Edits(h) =>
                /\ cbs'[h].ans = "not_modified" => cbs'[h].pc = "answer"
                /\ cbs'[h].ans = "error" => cbs'[h].pc = "raised"
                /\ cbs'[h].ans = "bad_request" =>
                       cbs'[h].pc = IF cbs[h].kind = "refresh" THEN "raised"
                                    ELSE "fallback"
          /\ cbs[h].pc = "fallback" /\ cbs'[h] # cbs[h] =>
                cbs'[h].pc = "answer" /\ cbs'[h].ans = "bad_request"]_vars

\* a refresh has raised on a TelegramBadRequest while a close that got one
\* goes on to its acknowledgement
C11_Witness ==
    \E h, g \in Pressers :
        /\ cbs[h].kind = "close" /\ cbs[h].pc = "answer"
        /\ cbs[h].ans = "bad_request"
        /\ cbs[g].kind = "refresh" /\ cbs[g].pc = "raised"
        /\ cbs[g].ans = "bad_request"

\* C12: the displayed message changes only by the step of a handler none of
\* whose store operations failed and which, if it is cmd_stats or cb_refresh,
\* is at its reply or its edit with the five fields of its snapshot read; the
\* step at which a store operation fails, and every later step of that
\* handler, leaves the displayed message as it is.
C12_NoPartialReport ==
    [][/\ msg' # msg =>
            \E h \in Pressers \cup Commanders :
                /\ cbs'[h] # cbs[h]
                /\ cbs[h].ans # "store"
                /\ cbs[h].kind \in {"refresh", "stats"} =>
                       cbs[h].pc \in {"edit", "reply"}
                           /\ cbs[h].got = SnapFields
       /\ \A h \in Pressers \cup Commanders :
              cbs'[h] # cbs[h] /\ "store" \in {cbs[h].ans, cbs'[h].ans} =>
                  msg' = msg]_vars

\* the store has failed a refresh in the middle of its snapshot, and the
\* report is displayed as /stats sent it
C12_Witness ==
    \E h \in Pressers :
        /\ cbs[h].kind = "refresh" /\ cbs[h].ans = "store"
        /\ cbs[h].got # {} /\ cbs[h].got # SnapFields
        /\ msg.text # <<>> /\ msg.markup

\* C19: a report that is inert stays inert at every step of every handler.
C19_StaysInert == [][Inert => Inert']_vars

(***************************************************************************)
(* More properties of the interleaved specification.                       *)
(***************************************************************************)
\* C16: the totals a snapshot returns are at least the totals of every
\* snapshot that had returned before it was called.
C16_TotalsMonotonic ==
    \A q \in Readers :
        snp[q].pc = "done" => \A f \in Totals : snp[q].res[f] >= snp[q].low[f]

\* a snapshot returns greater totals than an earlier one that saw a record
C16_Witness ==
    \E q \in Readers :
        /\ snp[q].pc = "done"
        /\ \A f \in Totals : snp[q].low[f] >= 1 /\ snp[q].res[f] > snp[q].low[f]

\* C18: the command total a snapshot returns is at most its message total,
\* and the command counter of the store is at most its message counter.
C18_CmdsAtMostMsgs ==
    /\ \A q \in Readers :
           snp[q].pc = "done" => snp[q].res.cmds_total <= snp[q].res.msgs_total
    /\ get_int(store.k_cmds) <= get_int(store.k_msgs)

(***************************************************************************)
(* The scrape endpoint.  metrics_handler awaits snapshot, whose store      *)
(* commands interleave with those of other handlers; from the return of    *)
(* snapshot to the return of the handler there is no await, so the five    *)
(* set() and generate_latest run as one step of the event loop.            *)
(***************************************************************************)
\* four of the five set(): G_RPM1 keeps the value of the request before
set_gauges_but_rpm(gauges, snap) ==
    [g \in DOMAIN Gauges |->
        IF g = "G_RPM1" THEN gauges[g] ELSE snap[Gauges[g]]]

\* G_MSGS.set(snap["msgs_total"]) and the four other gauges
set_gauges(gauges, snap) == [g \in DOMAIN Gauges |-> snap[Gauges[g]]]

\* a gauge holds a float, written as Go writes it
floatToGoString(v) == str(v) \o <<".", "0">>

\* generate_latest(REGISTRY): one sample per gauge, in registration order
generate_latest(gauges) ==
    [i \in 1..5 |->
        LET g == <<"G_MSGS", "G_CMDS", "G_USERS", "G_ACTIVE5", "G_RPM1">>[i]
        IN  [name |-> <<"telegram_">> \o <<Gauges[g]>>,
             value |-> floatToGoString(gauges[g])]]

\* a store command of snapshot fails and the handler goes on to render, with
\* 0 for what was not read
scrape_failed_render(r) == [r EXCEPT !.pc = "set"]

\* a store command of snapshot fails: the exception leaves metrics_handler
\* and the server answers without the body of the handler
scrape_failed(r) == [r EXCEPT !.pc = "raised"]

NoScrape == [answered |-> FALSE]

InitWeb ==
    /\ store = EmptyStore
    /\ hist = NoScrape
    /\ nrec = 0
    /\ tally = NoTally
    /\ rec = IdleRec
    /\ snp = IdleSnp
    /\ msg = NoMsg
    /\ cbs = IdleCbs
    /\ web = NoWeb

\* GET /metrics: now = int(time.time()), and snapshot is called
Scrape(w) ==
    /\ web.req[w].pc = "idle"
    /\ web' = [web EXCEPT !.req[w] =
                  [IdleScraper EXCEPT !.pc = "prune", !.calls = 1]]
    /\ UNCHANGED <<store, hist, nrec, tally, rec, snp, msg, cbs>>

\* the next store command of the snapshot metrics_handler awaits
ScrapeSnapshot(w) ==
    LET r == web.req[w]
        n == snapshot_step(r.pc, store, T0, r.res, r.got)
    IN  /\ r.pc \in SnapPcs
        /\ store' = n.store
        /\ web' = [web EXCEPT !.req[w] =
                      [r EXCEPT !.res = n.res, !.got = n.got,
                                !.pc = IF n.pc # "return" THEN n.pc ELSE "set"]]
        /\ UNCHANGED <<hist, nrec, tally, rec, snp, msg, cbs>>

\* the store fails the next command of the snapshot
ScrapeSnapshotFails(w) ==
    /\ web.req[w].pc \in SnapPcs
    /\ web' = [web EXCEPT !.req[w] = scrape_failed(@)]
    /\ UNCHANGED <<store, hist, nrec, tally, rec, snp, msg, cbs>>

\* the five set(), generate_latest and web.Response
ScrapeRender(w) ==
    LET gauges == set_gauges(web.gauges, web.req[w].res)
    IN  /\ web.req[w].pc = "set"
        /\ web' = [web EXCEPT !.gauges = gauges,
                              !.req[w].body = generate_latest(gauges),
                              !.req[w].pc = "responded"]
        /\ hist' = [hist EXCEPT !.answered = TRUE]
        /\ UNCHANGED <<store, nrec, tally, rec, snp, msg, cbs>>

\* the server has sent the response, or the error, of the request
ScrapeOver(w) ==
    /\ web.req[w].pc \in {"responded", "raised"}
    /\ web' = [web EXCEPT !.req[w] = IdleScraper]
    /\ UNCHANGED <<store, hist, nrec, tally, rec, snp, msg, cbs>>

NextWeb ==
    \/ \E c \in ChatIds, k \in BOOLEAN : AnyMessage(c, k)
    \/ \E w \in Scrapers : Scrape(w)
    \/ \E w \in Scrapers : ScrapeSnapshot(w)
    \/ \E w \in Scrapers : ScrapeSnapshotFails(w)
    \/ \E w \in Scrapers : ScrapeRender(w)
    \/ \E w \in Scrapers : ScrapeOver(w)

SpecWeb == InitWeb /\ [][NextWeb]_vars

\* the value of the gauge g in the body
Rendered(body, g) ==
    LET i == CHOOSE j \in 1..Len(body) :
                 body[j].name = <<"telegram_">> \o <<Gauges[g]>>
    IN  body[i].value

\* C13: a scrape whose snapshot fails raises and has no body; a body is
\* rendered only by a request whose snapshot has returned its five fields;
\* and a request whose snapshot has returned, be it with five zeros, answers
\* with a body at its next step.
C13_FailedScrape ==
    [][\A w \in Scrapers :
          LET r == web.req[w]
              n == web'.req[w]
          IN  /\ n.body # NoBody => n.got = SnapFields /\ n.pc = "responded"
              /\ (r.pc \in SnapPcs /\ n.pc \notin SnapPcs \cup {"set"}) =>
                     n.pc = "raised" /\ n.body = NoBody
              /\ (r.pc = "set" /\ n # r) =>
                     n.pc = "responded" /\ Len(n.body) = 5]_vars

\* a scrape has been answered with values other than 0, the gauges still
\* hold them, and the snapshot of a later scrape has failed
C13_Witness ==
    \E w \in Scrapers :
        /\ web.req[w].pc = "raised" /\ web.req[w].got # {}
        /\ hist.answered /\ web.gauges.G_MSGS >= 1

\* C14: a request calls snapshot once, and the five values of the body of
\* its response are the five fields of the snapshot it awaited.
C14_OwnSnapshot ==
    \A w \in Scrapers :
        /\ web.req[w].pc # "idle" => web.req[w].calls = 1
        /\ web.req[w].pc = "responded" =>
               /\ Len(web.req[w].body) = 5
               /\ \A g \in DOMAIN Gauges :
                      Rendered(web.req[w].body, g) =
                          str(web.req[w].res[Gauges[g]]) \o <<".", "0">>

\* a request is answered with its snapshot while the other request holds a
\* snapshot with other values and has yet to set the gauges
C14_Witness ==
    \E w, u \in Scrapers :
        /\ web.req[w].pc = "responded" /\ web.req[u].pc = "set"
        /\ web.req[w].res.msgs_total = 2
        /\ web.req[u].res.msgs_total = 1

====
